---- MODULE Spec2Model ----
(***************************************************************************)
(* Inventory reservation and order/payment reconciliation of the agrofarm  *)
(* backend: the Redis cart holds (routes/cart.js), the hold sweep          *)
(* (cron/stockScheduler), order creation (routes/order.js in its two       *)
(* variants), the payment bridge and the payment reconcilers.              *)
(*                                                                         *)
(* Every handler is cut at its awaits: one action per store call, so that  *)
(* concurrent requests interleave exactly where Node.js lets them.         *)
(***************************************************************************)
EXTENDS Integers, Sequences, FiniteSets, TLC

\* ------------------------------------------------------------------ bounds
NumProducts == 2
NumCarts == 2
MaxQty == 2
NumCartReqs == 2
NumOrderReqs == 2
MaxItems == 2
MaxTime == 3
InitStock == 3
\* HOLD_EXPIRY_SECONDS, counted in clock ticks of the model
HoldExpiryTicks == 2
MaxRestoreItems == 2
MaxRestoreQty == 1
MaxClientPrice == 0
NumBridgeCalls == 2
MaxReplies == 2
NumPayReqs == 2
MaxAmountPaid == 2
MaxTotalAmount == 2
MaxRollbackSweeps == 2
NumAuthReqs == 2

Products == 1..NumProducts
Carts == 1..NumCarts
Qtys == 1..MaxQty
CartReqs == 1..NumCartReqs
\* a request of POST /api/orders and the payment reference it is given
Refs == 1..NumOrderReqs
\* sku 0 names no product; quantity 0 is not a positive integer
Skus == 0..NumProducts
OrderQtys == 0..MaxQty

VARIABLES
    stockCounter,   \* Redis  stock:<productId>        -> integer
    holds,          \* Redis  hold:<productId>:<cartId> -> hash (fields present only)
    productStock,   \* Mongo  Product.stock
    now,            \* Date.now(), in ticks
    creq,           \* the cart requests in flight: handler position and locals
    sweep,          \* restoreExpiringCartHolds: position and locals
    sweepsInRow,    \* history: complete sweeps in a row with nothing else in between
    sweepMetDeleted, \* history: a sweep has read a listed key whose hash was gone
    design,         \* the deployed variant: "direct" (createPayment + webhook) or
                    \* "broker" (sendPaymentRequest + consumer)
    orders,         \* Mongo  Order, by payment reference
    payments,       \* Mongo  Payment.status, by payment reference
    oreq,           \* the POST /api/orders requests: handler position and locals
    bridge,         \* the sendPaymentRequest calls: position, locals, broker resources
    ledger,         \* POST /api/payments: the Order's totalAmount, the Payment
                    \* documents of the order in the order they were saved, and
                    \* the requests in flight
    rb,             \* rollbackStock: the order it is handed, position and locals
    auth            \* the requests passing through userAuth and adminAuth

cartVars == <<stockCounter, holds, now, creq, sweep, sweepsInRow, sweepMetDeleted>>

orderVars == <<productStock, design, orders, payments, oreq, bridge, ledger, rb, auth>>

\* the state of the cart, the sweep and the order handlers
coreVars == <<cartVars, productStock, design, orders, payments, oreq>>

\* ------------------------------------------------------------- Redis hashes
\* A hash holds only the fields that were written; a key with no field does
\* not exist.
NoHold == [f \in {} |-> 0]

HasField(h, f) == f \in DOMAIN h

Exists(h) == DOMAIN h # {}

\* redis.hset(holdKey, {quantity, createdAt}): both fields are set to the
\* values given, whatever the hash held
HSet(h, quantity, createdAt) ==
    [f \in DOMAIN h \cup {"quantity", "createdAt"} |->
        IF f = "quantity" THEN quantity ELSE createdAt]

\* redis.hincrby(holdKey, 'quantity', d): a missing field counts as 0
HIncrBy(h, d) ==
    [f \in DOMAIN h \cup {"quantity"} |->
        IF f = "quantity"
        THEN (IF HasField(h, "quantity") THEN h.quantity ELSE 0) + d
        ELSE h[f]]

\* parseInt(await redis.hget(holdKey, 'quantity') || 0, 10)
HGetQuantity(h) == IF HasField(h, "quantity") THEN h.quantity ELSE 0

\* the keys redis.keys("hold:*") lists
HoldKeys == {k \in Products \X Carts : Exists(holds[k])}

\* ------------------------------------------------------------ cart requests
\* items: the request's lines, <<[productId, quantity]>>; add and remove carry one.
\* raw: the quantity as a remove request sent it, counted in halves.
\* stock0 is history: the StockCounter of the first line's product on arrival.
IdleReq == [op |-> "none", pc |-> "idle", c |-> 1, items |-> <<>>, idx |-> 1,
            currentStock |-> 0, currentHold |-> 0, res |-> "none",
            stock0 |-> 0, keysToDelete |-> {}, raw |-> 0]

Item(i) == creq[i].items[creq[i].idx]

HoldKey(i) == <<Item(i).productId, creq[i].c>>

\* the items of a restore-stock request; a quantity of 0 stands for every
\* item.quantity that parseInt does not make positive
ItemsOfLen(n) == [1..n -> [productId : Products, quantity : 0..MaxRestoreQty]]

\* the first item at or after position from that passes if (qty > 0); 0 if none
NextPositive(items, from) ==
    LET S == {k \in from..Len(items) : items[k].quantity > 0}
    IN  IF S = {} THEN 0 ELSE CHOOSE k \in S : \A j \in S : k <= j

Quiescent == /\ \A i \in CartReqs : creq[i].pc \in {"idle", "done"}
             /\ sweep.pc = "idle"

\* request slots are taken in order
CanArrive(i) == /\ creq[i].pc = "idle"
                /\ i > 1 => creq[i - 1].pc # "idle"

\* history kept by a sweep while nothing else runs beside it: the holds and
\* the StockCounters it started from
NoSnapshot == [holds |-> [key \in Products \X Carts |-> NoHold],
               stockCounter |-> [p \in Products |-> 0]]

\* a step of a cart request, or of the clock, ends a run of consecutive sweeps
OtherActivity == /\ sweepsInRow' = 0
                 /\ sweep' = [sweep EXCEPT !.alone = FALSE, !.atStart = NoSnapshot]
                 /\ UNCHANGED <<sweepMetDeleted, orderVars>>

Finish(i, result) == [creq EXCEPT ![i].pc = "done", ![i].res = result]

\* ---- POST /api/cart/add
\* const stock = await redis.get(stockKey)
AddGetStock(i, productId, cartId, quantity) ==
    /\ CanArrive(i)
    /\ creq' = [creq EXCEPT ![i] =
                 [IdleReq EXCEPT !.op = "add", !.pc = "add_hget", !.c = cartId,
                     !.items = <<[productId |-> productId, quantity |-> quantity]>>,
                     !.currentStock = stockCounter[productId],
                     !.stock0 = stockCounter[productId]]]
    /\ OtherActivity
    /\ UNCHANGED <<stockCounter, holds, now>>

\* a variant whose stock check leaves the current hold out
AddHGetIgnoringHold(i) ==
    /\ creq[i].pc = "add_hget"
    /\ LET currentHoldQuantity == HGetQuantity(holds[HoldKey(i)])
       IN  creq' = IF creq[i].currentStock < Item(i).quantity
                   THEN [Finish(i, "not_enough_stock") EXCEPT
                            ![i].currentHold = currentHoldQuantity]
                   ELSE [creq EXCEPT ![i].pc = "add_decrby",
                                     ![i].currentHold = currentHoldQuantity]
    /\ OtherActivity
    /\ UNCHANGED <<stockCounter, holds, now>>

\* const currentHoldQuantityStr = await redis.hget(holdKey, 'quantity'), and the
\* stock check on what was read
AddHGet(i) ==
    /\ creq[i].pc = "add_hget"
    /\ LET currentHoldQuantity == HGetQuantity(holds[HoldKey(i)])
           newTotalHoldQuantity == currentHoldQuantity + Item(i).quantity
       IN  creq' = IF creq[i].currentStock < newTotalHoldQuantity
                   THEN [Finish(i, "not_enough_stock") EXCEPT
                            ![i].currentHold = currentHoldQuantity]
                   ELSE [creq EXCEPT ![i].pc = "add_decrby",
                                     ![i].currentHold = currentHoldQuantity]
    /\ OtherActivity
    /\ UNCHANGED <<stockCounter, holds, now>>

\* await redis.decrby(stockKey, quantity)
AddDecrBy(i) ==
    /\ creq[i].pc = "add_decrby"
    /\ stockCounter' = [stockCounter EXCEPT ![Item(i).productId] = @ - Item(i).quantity]
    /\ creq' = [creq EXCEPT ![i].pc = "add_hset"]
    /\ OtherActivity
    /\ UNCHANGED <<holds, now>>

\* await redis.hset(holdKey, { quantity, createdAt: Date.now() })
AddHSet(i) ==
    /\ creq[i].pc = "add_hset"
    /\ holds' = [holds EXCEPT ![HoldKey(i)] = HSet(@, Item(i).quantity, now)]
    /\ creq' = Finish(i, "ok")
    /\ OtherActivity
    /\ UNCHANGED <<stockCounter, now>>

\* ---- POST /api/cart/remove
\* a request quantity is a number counted in halves: Whole(2) is 2, Whole(2) - 1
\* is 1.5
Whole(q) == 2 * q

\* the quantities a remove request may send: 0, 0.5, 1, ... MaxQty + 0.5
RawQtys == 0..(Whole(MaxQty) + 1)

\* parseInt(quantity, 10) of a number: its integer part
ParseInt(halves) == IF halves >= 0 THEN halves \div 2 ELSE 0 - ((0 - halves) \div 2)

\* restoreQty is parsed and validated, then the hold is read and compared
RemoveHGet(i, productId, cartId, quantity) ==
    /\ CanArrive(i)
    /\ LET restoreQty == ParseInt(quantity)
           currentHoldQuantity == HGetQuantity(holds[<<productId, cartId>>])
           r == [IdleReq EXCEPT !.op = "remove", !.c = cartId, !.raw = quantity,
                    !.items = <<[productId |-> productId, quantity |-> restoreQty]>>,
                    !.currentHold = currentHoldQuantity,
                    !.stock0 = stockCounter[productId]]
       IN  creq' = [creq EXCEPT ![i] =
                IF restoreQty <= 0
                THEN [r EXCEPT !.pc = "done", !.res = "invalid_quantity"]
                ELSE IF restoreQty > currentHoldQuantity
                THEN [r EXCEPT !.pc = "done", !.res = "more_than_held"]
                ELSE [r EXCEPT !.pc = "rm_incrby"]]
    /\ OtherActivity
    /\ UNCHANGED <<stockCounter, holds, now>>

\* await redis.incrby(stockKey, restoreQty)
RemoveIncrBy(i) ==
    /\ creq[i].pc = "rm_incrby"
    /\ stockCounter' = [stockCounter EXCEPT ![Item(i).productId] = @ + Item(i).quantity]
    /\ creq' = [creq EXCEPT ![i].pc =
                 IF Item(i).quantity < creq[i].currentHold THEN "rm_hincrby" ELSE "rm_exists"]
    /\ OtherActivity
    /\ UNCHANGED <<holds, now>>

\* await redis.hincrby(holdKey, 'quantity', -restoreQty)
RemoveHIncrBy(i) ==
    /\ creq[i].pc = "rm_hincrby"
    /\ holds' = [holds EXCEPT ![HoldKey(i)] = HIncrBy(@, 0 - Item(i).quantity)]
    /\ creq' = Finish(i, "ok")
    /\ OtherActivity
    /\ UNCHANGED <<stockCounter, now>>

\* const exists = await redis.exists(holdKey)
RemoveExists(i) ==
    /\ creq[i].pc = "rm_exists"
    /\ creq' = IF Exists(holds[HoldKey(i)])
               THEN [creq EXCEPT ![i].pc = "rm_del"]
               ELSE Finish(i, "ok")
    /\ OtherActivity
    /\ UNCHANGED <<stockCounter, holds, now>>

\* await redis.del(holdKey)
RemoveDel(i) ==
    /\ creq[i].pc = "rm_del"
    /\ holds' = [holds EXCEPT ![HoldKey(i)] = NoHold]
    /\ creq' = Finish(i, "ok")
    /\ OtherActivity
    /\ UNCHANGED <<stockCounter, now>>

\* ---- GET /api/stock/:productId
\* const stock = await redis.get(stockKey); parseInt(stock, 10) || 0
GetStock(i, productId) ==
    /\ CanArrive(i)
    /\ creq' = [creq EXCEPT ![i] =
                 [IdleReq EXCEPT !.op = "getstock", !.pc = "done", !.res = "ok",
                     !.items = <<[productId |-> productId, quantity |-> 0]>>,
                     !.currentStock = stockCounter[productId]]]
    /\ OtherActivity
    /\ UNCHANGED <<stockCounter, holds, now>>

\* ---- a store call of add or remove rejects: catch (err) answers 500
\* redis.hset rejects after redis.decrby was done
AddHSetFails(i) ==
    /\ creq[i].pc = "add_hset"
    /\ creq' = Finish(i, "store_error")
    /\ OtherActivity
    /\ UNCHANGED <<stockCounter, holds, now>>

\* redis.hincrby, redis.exists or redis.del rejects after redis.incrby was done
RemoveHoldWriteFails(i) ==
    /\ creq[i].pc \in {"rm_hincrby", "rm_exists", "rm_del"}
    /\ creq' = Finish(i, "store_error")
    /\ OtherActivity
    /\ UNCHANGED <<stockCounter, holds, now>>

StoreFails(i) == AddHSetFails(i) \/ RemoveHoldWriteFails(i)

\* ---- POST /api/cart/restore-stock
\* !cartId || !Array.isArray(items) || items.length === 0 answers 400; items
\* whose qty is not positive are passed over; for the first that is:
\* await redis.incrby(stockKey, qty)
RestoreArrive(i, cartId, items) ==
    /\ CanArrive(i)
    /\ LET k == NextPositive(items, 1)
           r == [IdleReq EXCEPT !.op = "restore", !.c = cartId, !.items = items]
       IN  IF items = <<>>
           THEN /\ creq' = [creq EXCEPT ![i] =
                              [r EXCEPT !.pc = "done", !.res = "invalid_request"]]
                /\ UNCHANGED stockCounter
           ELSE IF k = 0
           THEN /\ creq' = [creq EXCEPT ![i] = [r EXCEPT !.pc = "done", !.res = "ok"]]
                /\ UNCHANGED stockCounter
           ELSE /\ stockCounter' = [stockCounter EXCEPT
                                      ![items[k].productId] = @ + items[k].quantity]
                /\ creq' = [creq EXCEPT ![i] =
                              [r EXCEPT !.pc = "rs_del", !.idx = k,
                                        !.stock0 = stockCounter[items[k].productId]]]
    /\ OtherActivity
    /\ UNCHANGED <<holds, now>>

\* await redis.incrby(stockKey, qty) of a later item
RestoreIncrBy(i) ==
    /\ creq[i].pc = "rs_incrby"
    /\ stockCounter' = [stockCounter EXCEPT ![Item(i).productId] = @ + Item(i).quantity]
    /\ creq' = [creq EXCEPT ![i].pc = "rs_del"]
    /\ OtherActivity
    /\ UNCHANGED <<holds, now>>

\* a variant that goes on to the next item and leaves the hold
RestoreDelKept(i) ==
    /\ creq[i].pc = "rs_del"
    /\ UNCHANGED holds
    /\ LET k == NextPositive(creq[i].items, creq[i].idx + 1)
       IN  creq' = IF k # 0
                   THEN [creq EXCEPT ![i].pc = "rs_incrby", ![i].idx = k]
                   ELSE Finish(i, "ok")
    /\ OtherActivity
    /\ UNCHANGED <<stockCounter, now>>

\* await redis.del(holdKey), then the next item with a positive qty
RestoreDel(i) ==
    /\ creq[i].pc = "rs_del"
    /\ holds' = [holds EXCEPT ![HoldKey(i)] = NoHold]
    /\ LET k == NextPositive(creq[i].items, creq[i].idx + 1)
       IN  creq' = IF k # 0
                   THEN [creq EXCEPT ![i].pc = "rs_incrby", ![i].idx = k]
                   ELSE Finish(i, "ok")
    /\ OtherActivity
    /\ UNCHANGED <<stockCounter, now>>

\* ---- POST /api/cart/clear-all-items
\* a cartId that Redis reads as the glob pattern matching every cart id
WildcardCart == 0

\* redis.scan(cursor, 'MATCH', `hold:*:${cartId}`): cartId goes into the glob
\* pattern as it was sent
MatchesPattern(key, cartId) == cartId = WildcardCart \/ key[2] = cartId

\* if (!cartId) answers 400
ClearNoCartId(i) ==
    /\ CanArrive(i)
    /\ creq' = [creq EXCEPT ![i] =
                 [IdleReq EXCEPT !.op = "clear", !.pc = "done", !.res = "invalid_request"]]
    /\ OtherActivity
    /\ UNCHANGED <<stockCounter, holds, now>>

\* the scan loop collects keysToDelete; none found answers removedHoldCount 0
ClearScan(i, cartId) ==
    /\ CanArrive(i)
    /\ LET keysToDelete == {key \in HoldKeys : MatchesPattern(key, cartId)}
           r == [IdleReq EXCEPT !.op = "clear", !.c = cartId,
                                !.keysToDelete = keysToDelete]
       IN  creq' = [creq EXCEPT ![i] =
                      IF keysToDelete = {}
                      THEN [r EXCEPT !.pc = "done", !.res = "ok"]
                      ELSE [r EXCEPT !.pc = "cl_unlink"]]
    /\ OtherActivity
    /\ UNCHANGED <<stockCounter, holds, now>>

\* await redis.unlink(keysToDelete)
ClearUnlink(i) ==
    /\ creq[i].pc = "cl_unlink"
    /\ holds' = [key \in DOMAIN holds |->
                   IF key \in creq[i].keysToDelete THEN NoHold ELSE holds[key]]
    /\ creq' = Finish(i, "ok")
    /\ OtherActivity
    /\ UNCHANGED <<stockCounter, now>>

\* ---- restoreExpiringCartHolds
IdleSweep == [pc |-> "idle", keys |-> {}, key |-> <<1, 1>>, quantity |-> 0,
              now |-> 0, alone |-> FALSE, atStart |-> NoSnapshot]

\* if (!quantity || !createdAt || isNaN(quantity) || isNaN(createdAt)): a missing
\* field parses to NaN, and 0 is falsy
InvalidHold(holdData) ==
    \/ ~HasField(holdData, "quantity")
    \/ ~HasField(holdData, "createdAt")
    \/ holdData.quantity = 0
    \/ holdData.createdAt = 0

\* a variant that also keeps a hold whose age is exactly the expiry
StillValidInclusive(holdData, t) == t - holdData.createdAt <= HoldExpiryTicks

\* if (age < HOLD_EXPIRY_SECONDS * 1000) continue
StillValid(holdData, t) == t - holdData.createdAt < HoldExpiryTicks

\* the sweep returns; a sweep nothing else ran beside extends the run of sweeps
SweepReturn == /\ sweep' = IdleSweep
               /\ sweepsInRow' = IF sweep.alone /\ sweepsInRow < 2
                                 THEN sweepsInRow + 1
                                 ELSE IF sweep.alone THEN sweepsInRow ELSE 0

\* the sweep goes on to the keys left, or returns
SweepContinue(rest) ==
    IF rest = {}
    THEN SweepReturn
    ELSE /\ sweep' = [sweep EXCEPT !.pc = "sw_hgetall", !.keys = rest]
         /\ UNCHANGED sweepsInRow

\* const keys = await redis.keys("hold:*"); const now = Date.now()
SweepKeys ==
    /\ sweep.pc = "idle"
    /\ IF HoldKeys = {}
       THEN /\ sweep' = IdleSweep
            /\ sweepsInRow' = IF sweepsInRow < 2 THEN sweepsInRow + 1 ELSE sweepsInRow
       ELSE /\ sweep' = [IdleSweep EXCEPT !.pc = "sw_hgetall", !.keys = HoldKeys,
                                          !.now = now, !.alone = TRUE,
                                          !.atStart = [holds |-> holds,
                                                       stockCounter |-> stockCounter]]
            /\ UNCHANGED sweepsInRow
    /\ UNCHANGED <<stockCounter, holds, now, creq, sweepMetDeleted, orderVars>>

\* a variant that returns at the first invalid hold
SweepHGetAllStops(key) ==
    /\ sweep.pc = "sw_hgetall"
    /\ key \in sweep.keys
    /\ LET holdData == holds[key]
       IN  IF InvalidHold(holdData)
           THEN SweepReturn
           ELSE IF StillValid(holdData, sweep.now)
           THEN SweepContinue(sweep.keys \ {key})
           ELSE /\ sweep' = [sweep EXCEPT !.pc = "sw_incrby", !.key = key,
                                          !.quantity = holdData.quantity]
                /\ UNCHANGED sweepsInRow
    /\ sweepMetDeleted' = (sweepMetDeleted \/ ~Exists(holds[key]))
    /\ UNCHANGED <<stockCounter, holds, now, creq, orderVars>>

\* const holdData = await redis.hgetall(key), and the checks on it
SweepHGetAll(key) ==
    /\ sweep.pc = "sw_hgetall"
    /\ key \in sweep.keys
    /\ LET holdData == holds[key]
       IN  IF InvalidHold(holdData) \/ StillValid(holdData, sweep.now)
           THEN SweepContinue(sweep.keys \ {key})
           ELSE /\ sweep' = [sweep EXCEPT !.pc = "sw_incrby", !.key = key,
                                          !.quantity = holdData.quantity]
                /\ UNCHANGED sweepsInRow
    /\ sweepMetDeleted' = (sweepMetDeleted \/ ~Exists(holds[key]))
    /\ UNCHANGED <<stockCounter, holds, now, creq, orderVars>>

\* a variant that gives the quantity back to Product.stock
SweepIncrByProduct ==
    /\ sweep.pc = "sw_incrby"
    /\ productStock' = [productStock EXCEPT ![sweep.key[1]] = @ + sweep.quantity]
    /\ sweep' = [sweep EXCEPT !.pc = "sw_del"]
    /\ UNCHANGED <<stockCounter, holds, now, creq, sweepsInRow, sweepMetDeleted,
                   design, orders, payments, oreq, bridge, ledger, rb, auth>>

\* await redis.incrby(stockKey, quantity)
SweepIncrBy ==
    /\ sweep.pc = "sw_incrby"
    /\ stockCounter' = [stockCounter EXCEPT ![sweep.key[1]] = @ + sweep.quantity]
    /\ sweep' = [sweep EXCEPT !.pc = "sw_del"]
    /\ UNCHANGED <<holds, now, creq, sweepsInRow, sweepMetDeleted, orderVars>>

\* a variant that leaves the key in place
SweepDelSkipped ==
    /\ sweep.pc = "sw_del"
    /\ UNCHANGED holds
    /\ SweepContinue(sweep.keys \ {sweep.key})
    /\ UNCHANGED <<stockCounter, now, creq, sweepMetDeleted, orderVars>>

\* await redis.del(key)
SweepDel ==
    /\ sweep.pc = "sw_del"
    /\ holds' = [holds EXCEPT ![sweep.key] = NoHold]
    /\ SweepContinue(sweep.keys \ {sweep.key})
    /\ UNCHANGED <<stockCounter, now, creq, sweepMetDeleted, orderVars>>

\* time passes
Tick ==
    /\ now < MaxTime
    /\ now' = now + 1
    /\ OtherActivity
    /\ UNCHANGED <<stockCounter, holds, creq>>

\* ----------------------------------------------------------- POST /api/orders
NoOrder == [status |-> "none", items |-> <<>>, totalAmount |-> 0]

\* Product.price, which no modelled handler writes; above every price a
\* request carries
ProductPrice == [p \in Products |-> MaxClientPrice + p]

\* a price the client puts on an item of its request
ClientPrices == 0..MaxClientPrice

\* one order line: {sku, qty, priceAtOrder, productNameAtOrder}
Line(item, itemPrice) == [sku |-> item.sku, qty |-> item.qty, priceAtOrder |-> itemPrice]

\* n: the length of req.body.items; items: the lines read so far; net is
\* history: what the call has taken from Product.stock and not given back
IdleOrd == [pc |-> "idle", n |-> 0, item |-> [sku |-> 0, qty |-> 0, price |-> 0],
            orderItemsForDb |-> <<>>, ridx |-> 1, pay |-> "none", res |-> "none",
            net |-> [p \in Products |-> 0],
            calculatedTotalAmount |-> 0, amount |-> 0]

OrdFinish(i, result) == [oreq EXCEPT ![i].pc = "done", ![i].res = result]

cartIdle == UNCHANGED <<holds, now, creq, sweep, sweepsInRow, sweepMetDeleted,
                        bridge, ledger, rb, auth>>

\* the request arrives; !items || !Array.isArray(items) || items.length === 0
\* || !shippingAddress answers 400
OrdArrive(i, n, shippingAddress) ==
    /\ oreq[i].pc = "idle"
    /\ i > 1 => oreq[i - 1].pc # "idle"
    /\ oreq' = [oreq EXCEPT ![i] =
                 IF n = 0 \/ ~shippingAddress
                 THEN [IdleOrd EXCEPT !.pc = "done", !.res = "invalid_request"]
                 ELSE [IdleOrd EXCEPT !.pc = "ord_find", !.n = n]]
    /\ UNCHANGED <<productStock, design, orders, payments, stockCounter>>
    /\ cartIdle

\* the next item: its shape, then const product = await Product.findOne(...)
\* and the checks on what was read; each failure returns at once
OrdFind(i, item) ==
    /\ oreq[i].pc = "ord_find"
    /\ oreq' = IF item.qty < 1
               THEN OrdFinish(i, "invalid_item")
               ELSE IF item.sku \notin Products
               THEN OrdFinish(i, "product_not_found")
               ELSE IF productStock[item.sku] < item.qty
               THEN OrdFinish(i, "insufficient_stock")
               ELSE [oreq EXCEPT ![i].pc = "ord_update", ![i].item = item]
    /\ UNCHANGED <<productStock, design, orders, payments, stockCounter>>
    /\ cartIdle

\* a variant whose update carries no stock condition
OrdUpdateUnguarded(i) ==
    /\ oreq[i].pc = "ord_update"
    /\ LET sku == oreq[i].item.sku
           qty == oreq[i].item.qty
           itemPrice == ProductPrice[sku]
           pushed == Append(oreq[i].orderItemsForDb, Line(oreq[i].item, itemPrice))
       IN  /\ productStock' = [productStock EXCEPT ![sku] = @ - qty]
           /\ oreq' = [oreq EXCEPT
                 ![i].orderItemsForDb = pushed,
                 ![i].calculatedTotalAmount = @ + itemPrice * qty,
                 ![i].net[sku] = @ + qty,
                 ![i].pc = IF Len(pushed) < oreq[i].n THEN "ord_find" ELSE "ord_pay"]
    /\ UNCHANGED <<design, orders, payments, stockCounter>>
    /\ cartIdle

\* a variant that takes the item's price from the request
OrdUpdateClientPrice(i) ==
    /\ oreq[i].pc = "ord_update"
    /\ LET sku == oreq[i].item.sku
           qty == oreq[i].item.qty
           itemPrice == oreq[i].item.price
           pushed == Append(oreq[i].orderItemsForDb, Line(oreq[i].item, itemPrice))
       IN  IF productStock[sku] >= qty
           THEN /\ productStock' = [productStock EXCEPT ![sku] = @ - qty]
                /\ oreq' = [oreq EXCEPT
                      ![i].orderItemsForDb = pushed,
                      ![i].calculatedTotalAmount = @ + itemPrice * qty,
                      ![i].net[sku] = @ + qty,
                      ![i].pc = IF Len(pushed) < oreq[i].n THEN "ord_find" ELSE "ord_pay"]
           ELSE /\ oreq' = OrdFinish(i, "stock_update_failed")
                /\ UNCHANGED productStock
    /\ UNCHANGED <<design, orders, payments, stockCounter>>
    /\ cartIdle

\* Product.findOneAndUpdate({sku, stock: {$gte: qty}}, {$inc: {stock: -qty}});
\* no document matched returns at once; then the line is priced from the
\* product document and pushed
OrdUpdate(i) ==
    /\ oreq[i].pc = "ord_update"
    /\ LET sku == oreq[i].item.sku
           qty == oreq[i].item.qty
           itemPrice == ProductPrice[sku]
           pushed == Append(oreq[i].orderItemsForDb, Line(oreq[i].item, itemPrice))
       IN  IF productStock[sku] >= qty
           THEN /\ productStock' = [productStock EXCEPT ![sku] = @ - qty]
                /\ oreq' = [oreq EXCEPT
                      ![i].orderItemsForDb = pushed,
                      ![i].calculatedTotalAmount = @ + itemPrice * qty,
                      ![i].net[sku] = @ + qty,
                      ![i].pc = IF Len(pushed) < oreq[i].n THEN "ord_find" ELSE "ord_pay"]
           ELSE /\ oreq' = OrdFinish(i, "stock_update_failed")
                /\ UNCHANGED productStock
    /\ UNCHANGED <<design, orders, payments, stockCounter>>
    /\ cartIdle

\* what the catch block of the deployed variant does first
CatchPc(i) == IF design = "direct" /\ oreq[i].orderItemsForDb # <<>>
              THEN "ord_rollback" ELSE "done"

\* direct: const result = await createPayment(...), which saves a Payment and
\* answers success, or answers {success: false}; !result.success returns
PayDirect(i, outcome) ==
    /\ design = "direct"
    /\ outcome \in {"success", "failure"}
    /\ oreq[i].pc = "ord_pay"
    /\ IF outcome = "success"
       THEN /\ payments' = [payments EXCEPT ![i] = "created"]
            /\ oreq' = [oreq EXCEPT ![i].pc = "ord_save", ![i].pay = outcome,
                                     ![i].amount = oreq[i].calculatedTotalAmount]
       ELSE /\ oreq' = [OrdFinish(i, "payment_failed") EXCEPT
                          ![i].pay = outcome, ![i].amount = oreq[i].calculatedTotalAmount]
            /\ UNCHANGED payments
    /\ UNCHANGED <<productStock, design, orders, stockCounter>>
    /\ cartIdle

\* a variant that goes on to save the order whatever the reply's status
PayBrokerUnchecked(i, outcome) ==
    /\ design = "broker"
    /\ outcome \in {"success", "failure", "timeout", "no_connection"}
    /\ oreq[i].pc = "ord_pay"
    /\ oreq' = [oreq EXCEPT
          ![i].pay = outcome,
          ![i].amount = oreq[i].calculatedTotalAmount,
          ![i].pc = IF outcome \in {"success", "failure"} THEN "ord_save" ELSE "done",
          ![i].res = CASE outcome \in {"success", "failure"} -> @
                       [] outcome = "timeout" -> "error_payment_response_timeout"
                       [] OTHER -> "internal_error"]
    /\ UNCHANGED <<productStock, design, orders, payments, stockCounter>>
    /\ cartIdle

\* broker: const paymentResponse = await sendPaymentRequest(...): a reply with
\* status success, a reply with another status (returns), no reply in 15 s
\* (the promise rejects: catch), or no connection (undefined is returned and
\* paymentResponse.status throws: catch). This catch block restores nothing.
PayBroker(i, outcome) ==
    /\ design = "broker"
    /\ outcome \in {"success", "failure", "timeout", "no_connection"}
    /\ oreq[i].pc = "ord_pay"
    /\ oreq' = [oreq EXCEPT
          ![i].pay = outcome,
          ![i].amount = oreq[i].calculatedTotalAmount,
          ![i].pc = IF outcome = "success" THEN "ord_save" ELSE "done",
          ![i].res = CASE outcome = "success" -> @
                       [] outcome = "failure" -> "payment_failed"
                       [] outcome = "timeout" -> "error_payment_response_timeout"
                       [] OTHER -> "internal_error"]
    /\ UNCHANGED <<productStock, design, orders, payments, stockCounter>>
    /\ cartIdle

\* await newOrder.save(): the order is persisted as pending, or save throws
OrdSave(i, saved) ==
    /\ oreq[i].pc = "ord_save"
    /\ IF saved
       THEN /\ orders' = [orders EXCEPT ![i] =
                    [status |-> "pending", items |-> oreq[i].orderItemsForDb,
                     totalAmount |-> oreq[i].calculatedTotalAmount]]
            /\ oreq' = IF design = "direct"
                       THEN [oreq EXCEPT ![i].pc = "ord_email"]
                       ELSE OrdFinish(i, "created")
       ELSE /\ UNCHANGED orders
            /\ oreq' = [oreq EXCEPT ![i].pc = CatchPc(i), ![i].res = "internal_error"]
    /\ UNCHANGED <<productStock, design, payments, stockCounter>>
    /\ cartIdle

\* direct: await sendEmail.run(...) after the save; it may throw into the catch
OrdEmail(i, sent) ==
    /\ oreq[i].pc = "ord_email"
    /\ oreq' = IF sent
               THEN OrdFinish(i, "created")
               ELSE [oreq EXCEPT ![i].pc = CatchPc(i), ![i].res = "internal_error"]
    /\ UNCHANGED <<productStock, design, orders, payments, stockCounter>>
    /\ cartIdle

\* direct, catch: await Product.updateOne({sku}, {$inc: {stock: qty}}) for each
\* pushed item; the model's post('updateOne') hook then sets stock:<id> in Redis
\* to the product's stock
OrdRollback(i) ==
    /\ oreq[i].pc = "ord_rollback"
    /\ LET it == oreq[i].orderItemsForDb[oreq[i].ridx]
       IN  /\ productStock' = [productStock EXCEPT ![it.sku] = @ + it.qty]
           /\ stockCounter' = [stockCounter EXCEPT ![it.sku] = productStock'[it.sku]]
           /\ oreq' = [oreq EXCEPT
                 ![i].net[it.sku] = @ - it.qty,
                 ![i].ridx = @ + 1,
                 ![i].pc = IF oreq[i].ridx < Len(oreq[i].orderItemsForDb)
                           THEN "ord_rollback" ELSE "done"]
    /\ UNCHANGED <<design, orders, payments>>
    /\ cartIdle

OrdStep(i) ==
    \/ \E sku \in Skus, qty \in OrderQtys, price \in ClientPrices :
          OrdFind(i, [sku |-> sku, qty |-> qty, price |-> price])
    \/ OrdUpdate(i)
    \/ \E outcome \in {"success", "failure"} : PayDirect(i, outcome)
    \/ \E outcome \in {"success", "failure", "timeout", "no_connection"} : PayBroker(i, outcome)
    \/ \E saved \in BOOLEAN : OrdSave(i, saved)
    \/ \E sent \in BOOLEAN : OrdEmail(i, sent)
    \/ OrdRollback(i)

\* ------------------------------------------------------- payment reconcilers
\* the Mongo documents a reconciler reads and writes
DB == [orders |-> orders, payments |-> payments, productStock |-> productStock]

Events == {"payment.captured", "payment.failed", "payment.authorized"}

\* payload.payment.entity.status of an event
EntityStatus(event) == CASE event = "payment.captured" -> "captured"
                         [] event = "payment.failed" -> "failed"
                         [] OTHER -> "authorized"

\* Payment.status: enum ['created', 'captured', 'failed']
PaymentStatusEnum == {"created", "captured", "failed"}

\* Order.status: enum values of models/order.js; order.save() rejects any other
OrderStatusEnum == {"pending", "processing", "shipped", "delivered", "cancelled", "failed"}

\* the broker message's paymentStatus
PaymentStatuses == {"captured", "payment.failed", "authorized"}

\* the quantity an order's lines hold of product p
RECURSIVE QtyOf(_, _)
QtyOf(items, p) ==
    IF items = <<>> THEN 0
    ELSE (IF Head(items).sku = p THEN Head(items).qty ELSE 0) + QtyOf(Tail(items), p)

\* a variant that also gives the order's stock back on a failed payment
HookCompensating(db, isWebhookValid, r, event) ==
    IF ~isWebhookValid \/ db.payments[r] = "none"
          \/ EntityStatus(event) \notin PaymentStatusEnum
          \/ db.orders[r].status = "none"
    THEN db
    ELSE [db EXCEPT
            !.payments[r] = EntityStatus(event),
            !.orders[r].status = IF event = "payment.captured" THEN "processing" ELSE "failed",
            !.productStock = [p \in Products |->
                 IF event = "payment.failed"
                 THEN @[p] + QtyOf(db.orders[r].items, p) ELSE @[p]]]

\* a variant that does not look at the signature check's result
HookUnverified(db, isWebhookValid, r, event) ==
    IF db.payments[r] = "none" \/ EntityStatus(event) \notin PaymentStatusEnum
    THEN db
    ELSE LET saved == [db EXCEPT !.payments[r] = EntityStatus(event)]
         IN  IF db.orders[r].status = "none"
             THEN saved
             ELSE [saved EXCEPT !.orders[r].status =
                      IF event = "payment.captured" THEN "processing"
                      ELSE IF event = "payment.failed" THEN "failed"
                      ELSE @]

\* POST /api/payment/hook: an invalid signature answers 400; a missing Payment
\* throws on payment.status (500); a status outside the enum fails payment.save()
\* (500); a missing Order throws on order.status after the Payment was saved,
\* and so does order.save() on a status outside the Order enum
Hook(db, isWebhookValid, r, event) ==
    IF ~isWebhookValid
    THEN db
    ELSE IF db.payments[r] = "none"
    THEN db
    ELSE IF EntityStatus(event) \notin PaymentStatusEnum
    THEN db
    ELSE LET saved == [db EXCEPT !.payments[r] = EntityStatus(event)]
             status == IF event = "payment.captured" THEN "processing"
                       ELSE IF event = "payment.failed" THEN "failed"
                       ELSE db.orders[r].status
         IN  IF db.orders[r].status = "none" \/ status \notin OrderStatusEnum
             THEN saved
             ELSE [saved EXCEPT !.orders[r].status = status]

\* the status code POST /api/payment/hook answers with: 400 on an invalid
\* signature; 500 from the catch block when payment.status is set on a missing
\* Payment, when payment.save() or order.save() rejects the status, when the
\* Order is missing, and, after both saves, when a captured event reads
\* req.user.email on a route that sets no req.user; 200 otherwise
HookResponse(db, isWebhookValid, r, event) ==
    IF ~isWebhookValid THEN 400
    ELSE IF db.payments[r] = "none" THEN 500
    ELSE IF EntityStatus(event) \notin PaymentStatusEnum THEN 500
    ELSE IF db.orders[r].status = "none" THEN 500
    ELSE IF event = "payment.captured" THEN 500
    ELSE 200

\* a variant that compares the event's name on both branches
ConsumeEventNames(db, r, paymentStatus) ==
    IF db.orders[r].status = "none"
    THEN db
    ELSE [db EXCEPT !.orders[r].status =
             IF paymentStatus = "payment.captured" THEN "processing"
             ELSE IF paymentStatus = "payment.failed" THEN "failed"
             ELSE @]

\* processPaymentStatusUpdated: a missing Order throws on order.status, which
\* the function catches and logs; no Payment is read or written
Consume(db, r, paymentStatus) ==
    LET status == IF paymentStatus = "captured" THEN "processing"
                  ELSE IF paymentStatus = "payment.failed" THEN "failed"
                  ELSE db.orders[r].status
    IN  IF db.orders[r].status = "none" \/ status \notin OrderStatusEnum
        THEN db
        ELSE [db EXCEPT !.orders[r].status = status]

\* processPaymentStatusUpdated loaded the order and order.save() succeeded
ConsumePersisted(db, r, paymentStatus) ==
    /\ db.orders[r].status # "none"
    /\ (IF paymentStatus = "captured" THEN "processing"
        ELSE IF paymentStatus = "payment.failed" THEN "failed"
        ELSE db.orders[r].status) \in OrderStatusEnum

\* channel.ack(msg) follows await processPaymentStatusUpdated(...), which
\* catches and logs every error of its body and so always returns
ConsumerAcks(db, r, paymentStatus) == TRUE

Write(db) ==
    /\ orders' = db.orders
    /\ payments' = db.payments
    /\ productStock' = db.productStock
    /\ UNCHANGED <<design, oreq, stockCounter>>
    /\ cartIdle

\* the provider calls the webhook
WebhookDeliver(r, event, isWebhookValid) ==
    /\ design = "direct"
    /\ Write(Hook(DB, isWebhookValid, r, event))

\* the consumer is handed a message of the payment_events exchange
ConsumerDeliver(r, paymentStatus) ==
    /\ design = "broker"
    /\ Write(Consume(DB, r, paymentStatus))

\* ------------------------------------------------- sendPaymentRequest
BridgeCalls == 1..NumBridgeCalls

\* connection, channel: the broker resources of the call, open or not;
\* opened: history, both were opened; connectFailed: history, amqp.connect
\* rejected; consume: the state of the channel.consume registration;
\* timeoutId: the 15 s timer is pending; closers: the 100 ms close timers
\* pending; outcome: how the caller saw the call end; replies: the messages
\* the consumer callback has been handed; resolvedBy: the correlation of the
\* reply that resolved the promise
IdleBridge == [pc |-> "idle", connection |-> FALSE, channel |-> FALSE,
               opened |-> FALSE, connectFailed |-> FALSE, consume |-> "none",
               timeoutId |-> FALSE, closers |-> 0, outcome |-> "none",
               replies |-> 0, resolvedBy |-> "none"]

\* catch(err) { console.log(err.message) }: the async function returns
\* undefined and closes nothing
BridgeCatch(rec) == [rec EXCEPT !.pc = "settled", !.outcome = "returned_undefined"]

\* resolve or reject of a promise: only the first one settles it
Settle(rec, outcome) ==
    IF rec.outcome = "none" THEN [rec EXCEPT !.outcome = outcome] ELSE rec

BridgeCall(b) ==
    /\ bridge[b].pc = "idle"
    /\ bridge' = [bridge EXCEPT ![b].pc = "connect"]
    /\ UNCHANGED <<coreVars, ledger, rb, auth>>

\* await amqp.connect(process.env.RABBITMQ_URL)
BridgeConnect(b, ok) ==
    /\ bridge[b].pc = "connect"
    /\ bridge' = [bridge EXCEPT ![b] =
          IF ok THEN [@ EXCEPT !.pc = "createChannel", !.connection = TRUE]
          ELSE BridgeCatch([@ EXCEPT !.connectFailed = TRUE])]
    /\ UNCHANGED <<coreVars, ledger, rb, auth>>

\* await connection.createChannel()
BridgeCreateChannel(b, ok) ==
    /\ bridge[b].pc = "createChannel"
    /\ bridge' = [bridge EXCEPT ![b] =
          IF ok THEN [@ EXCEPT !.pc = "assertQueue", !.channel = TRUE, !.opened = TRUE]
          ELSE BridgeCatch(@)]
    /\ UNCHANGED <<coreVars, ledger, rb, auth>>

\* await channel.assertQueue(requestQueue), await channel.assertQueue('')
BridgeAssertQueue(b, ok) ==
    /\ bridge[b].pc = "assertQueue"
    /\ bridge' = [bridge EXCEPT ![b] =
          IF ok THEN [@ EXCEPT !.pc = "promise"] ELSE BridgeCatch(@)]
    /\ UNCHANGED <<coreVars, ledger, rb, auth>>

\* the executor of the returned promise: channel.consume is called,
\* the request is published, the 15 s timer is set
BridgePromise(b) ==
    /\ bridge[b].pc = "promise"
    /\ bridge' = [bridge EXCEPT ![b].pc = "waiting", ![b].consume = "pending",
                                ![b].timeoutId = TRUE]
    /\ UNCHANGED <<coreVars, ledger, rb, auth>>

\* channel.consume(...) fulfils: the consumer is registered
BridgeConsumeOk(b) ==
    /\ bridge[b].consume = "pending"
    /\ bridge' = [bridge EXCEPT ![b].consume = "registered"]
    /\ UNCHANGED <<coreVars, ledger, rb, auth>>

\* channel.consume(...) rejects: .catch(err => reject(err))
BridgeConsumeErr(b) ==
    /\ bridge[b].consume = "pending"
    /\ bridge' = [bridge EXCEPT ![b] =
          Settle([@ EXCEPT !.consume = "failed"], "rejected_consume")]
    /\ UNCHANGED <<coreVars, ledger, rb, auth>>

\* the consumer callback is handed a message of the reply queue
BridgeReply(b, matches, parses) ==
    /\ bridge[b].consume = "registered"
    /\ bridge[b].channel
    /\ bridge[b].replies < MaxReplies
    /\ bridge' = [bridge EXCEPT ![b] =
          LET rec == [@ EXCEPT !.replies = @ + 1]
          IN  IF ~matches THEN rec
              ELSE IF parses
              THEN [Settle(rec, "resolved") EXCEPT
                      !.timeoutId = FALSE, !.closers = @ + 1,
                      !.resolvedBy = IF rec.outcome = "none" THEN "own" ELSE @]
              ELSE [Settle(rec, "rejected_parse") EXCEPT !.closers = @ + 1]]
    /\ UNCHANGED <<coreVars, ledger, rb, auth>>

\* the 15 s timer fires
BridgeTimeout(b) ==
    /\ bridge[b].timeoutId
    /\ bridge' = [bridge EXCEPT ![b] =
          [Settle(@, "rejected_timeout") EXCEPT !.timeoutId = FALSE, !.closers = @ + 1]]
    /\ UNCHANGED <<coreVars, ledger, rb, auth>>

\* a 100 ms timer fires: await channel.close(); await connection.close();
\* channel.close() on a channel already closed throws into the empty catch
BridgeClose(b) ==
    /\ bridge[b].closers > 0
    /\ bridge' = [bridge EXCEPT ![b] =
          IF @.channel
          THEN [@ EXCEPT !.closers = @ - 1, !.channel = FALSE, !.connection = FALSE]
          ELSE [@ EXCEPT !.closers = @ - 1]]
    /\ UNCHANGED <<coreVars, ledger, rb, auth>>

\* the steps the runtime takes by itself
BridgeStep(b) ==
    \/ \E ok \in BOOLEAN : BridgeConnect(b, ok)
    \/ \E ok \in BOOLEAN : BridgeCreateChannel(b, ok)
    \/ \E ok \in BOOLEAN : BridgeAssertQueue(b, ok)
    \/ BridgePromise(b)
    \/ BridgeConsumeOk(b)
    \/ BridgeConsumeErr(b)
    \/ BridgeTimeout(b)
    \/ BridgeClose(b)

\* ------------------------------------------------- POST /api/payments
PayReqs == 1..NumPayReqs
Amounts == 0..MaxAmountPaid

IdlePay == [pc |-> "idle", amountPaid |-> 0, totalAmount |-> 0, status |-> "none",
            res |-> 0]

RECURSIVE SumAmountPaid(_)
\* existingPayments.reduce((sum, payment) => sum + payment.amountPaid, 0)
SumAmountPaid(docs) ==
    IF docs = <<>> THEN 0 ELSE Head(docs).amountPaid + SumAmountPaid(Tail(docs))

\* let status = 'completed'; if (order.totalAmount >= totalPaid) status = 'partially paid'
DynamicStatus(totalAmount, totalPaid) ==
    IF totalAmount >= totalPaid THEN "partially paid" ELSE "completed"

otherVars == <<coreVars, bridge, rb, auth>>

\* an Order document of the given totalAmount is saved
PayOrderSaved(totalAmount) ==
    /\ ledger.status = "none"
    /\ ledger' = [ledger EXCEPT !.totalAmount = totalAmount, !.status = "pending"]
    /\ UNCHANGED otherVars

\* the request arrives with a valid body; Order.findById(order_id)
PayFindOrder(i, amountPaid) ==
    /\ ledger.req[i].pc = "idle"
    /\ ledger' = [ledger EXCEPT !.req[i] =
          IF ledger.status = "none"
          THEN [@ EXCEPT !.pc = "done", !.res = 404]
          ELSE [@ EXCEPT !.pc = "find", !.amountPaid = amountPaid,
                         !.totalAmount = ledger.totalAmount]]
    /\ UNCHANGED otherVars

\* Payment.find({order_id}), the sum, and the status
PayFindPayments(i) ==
    /\ ledger.req[i].pc = "find"
    /\ ledger' = [ledger EXCEPT !.req[i].pc = "save",
          !.req[i].status = DynamicStatus(ledger.req[i].totalAmount,
              SumAmountPaid(ledger.payments) + ledger.req[i].amountPaid)]
    /\ UNCHANGED otherVars

\* newPayment.save()
PaySave(i) ==
    /\ ledger.req[i].pc = "save"
    /\ ledger' = [ledger EXCEPT !.req[i].pc = "update",
          !.payments = Append(@, [amountPaid |-> ledger.req[i].amountPaid,
                                  status |-> ledger.req[i].status])]
    /\ UNCHANGED otherVars

\* Order.findByIdAndUpdate(order_id, {status: 'processing'}) and the 201
PayOrderUpdate(i) ==
    /\ ledger.req[i].pc = "update"
    /\ ledger' = [ledger EXCEPT !.req[i].pc = "done", !.req[i].res = 201,
                                !.status = "processing"]
    /\ UNCHANGED otherVars

PayStep(i) == PayFindPayments(i) \/ PaySave(i) \/ PayOrderUpdate(i)

\* ------------------------------------------------------ rollbackStock
\* status: the Order's status ("none": no order yet); qtys: item.qty of its
\* lines; restored: history, the quantity added back to each line's product;
\* sweeps: history, the calls of rollbackStock made for the order;
\* orderStatus: order.status of the document rollbackStock was handed;
\* captured: history, a captured event was delivered for the order
IdleRollback == [status |-> "none", qtys |-> <<>>, restored |-> <<>>,
                 pc |-> "idle", idx |-> 1, rollbackSuccess |-> FALSE, sweeps |-> 0,
                 orderStatus |-> "none", captured |-> FALSE]

RECURSIVE QtysOfLen(_)
QtysOfLen(n) ==
    IF n = 0 THEN {<<>>}
    ELSE {Append(s, q) : s \in QtysOfLen(n - 1), q \in 1..MaxQty}

\* an Order of the given lines is in the given status
RollbackOrder(status, qtys) ==
    /\ rb.status = "none"
    /\ rb' = [rb EXCEPT !.status = status, !.qtys = qtys,
                        !.restored = [k \in 1..Len(qtys) |-> 0]]
    /\ UNCHANGED <<coreVars, bridge, ledger, auth>>

\* rollbackStock(order) is called for an order read as pending or failed
RollbackCall ==
    /\ rb.pc = "idle"
    /\ rb.status \in {"pending", "failed"}
    /\ rb.sweeps < MaxRollbackSweeps
    /\ rb' = [rb EXCEPT !.sweeps = @ + 1, !.idx = 1, !.rollbackSuccess = FALSE,
                        !.orderStatus = rb.status,
                        !.pc = IF Len(rb.qtys) > 0 THEN "items" ELSE "idle"]
    /\ UNCHANGED <<coreVars, bridge, ledger, auth>>

\* await Product.updateOne({_id: item.product_id}, {$inc: {stock: item.qty}})
\* for the next line: rollbackSuccess is set by its outcome alone
RollbackUpdateOne(ok) ==
    /\ rb.pc = "items"
    /\ rb' = [rb EXCEPT
          !.restored[rb.idx] = IF ok THEN @ + rb.qtys[rb.idx] ELSE @,
          !.rollbackSuccess = ok,
          !.idx = @ + 1,
          !.pc = IF rb.idx < Len(rb.qtys) THEN "items"
                 ELSE IF ok THEN "status" ELSE "idle"]
    /\ UNCHANGED <<coreVars, bridge, ledger, auth>>

\* await Order.updateOne({_id}, {$set: {status: ..._stock_rolledback}})
RollbackStatus(ok) ==
    /\ rb.pc = "status"
    /\ rb' = [rb EXCEPT !.pc = "idle",
          !.status = IF ~ok THEN @
                     ELSE IF rb.orderStatus = "pending" THEN "pending_stock_rolledback"
                     ELSE "failed_stock_rolledback"]
    /\ UNCHANGED <<coreVars, bridge, ledger, auth>>

\* the webhook is handed payment.captured for the order: Order.findOne,
\* order.status = 'processing', order.save()
RollbackCaptured ==
    /\ rb.status # "none"
    /\ ~rb.captured
    /\ rb' = [rb EXCEPT !.status = "processing", !.captured = TRUE]
    /\ UNCHANGED <<coreVars, bridge, ledger, auth>>

\* ------------------------------------------------------ userAuth, adminAuth
AuthReqs == 1..NumAuthReqs
Tokens == {"missing", "invalid", "valid"}

\* token: req.cookies.token; userExists: User.findById finds the user the
\* token names; isAdmin: that user's role includes 'admin'; adminRoute: the
\* route is guarded by adminAuth as well; reqUser: req.user; responses: the
\* responses sent; handlerRan: history, the route handler was invoked
IdleAuth == [pc |-> "idle", token |-> "missing", userExists |-> FALSE,
             isAdmin |-> FALSE, adminRoute |-> FALSE, reqUser |-> "unset",
             responses |-> 0, handlerRan |-> FALSE]

\* res.status(...).json(...): a response once sent, a further one throws
Respond(rec) == IF rec.responses = 0 THEN [rec EXCEPT !.responses = 1] ELSE rec

\* the request enters userAuth: a missing token is answered and the
\* function goes on to jwt.verify
AuthArrive(i, token, userExists, isAdmin, adminRoute) ==
    /\ auth[i].pc = "idle"
    /\ auth' = [auth EXCEPT ![i] =
          LET rec == [@ EXCEPT !.pc = "verify", !.token = token,
                               !.userExists = userExists, !.isAdmin = isAdmin,
                               !.adminRoute = adminRoute]
          IN  IF token = "missing" THEN Respond(rec) ELSE rec]
    /\ UNCHANGED <<coreVars, bridge, ledger, rb>>

\* await jwt.verify(token, TOKEN_KEY): it throws unless the token verifies,
\* and the catch block does nothing
AuthVerify(i) ==
    /\ auth[i].pc = "verify"
    /\ auth' = [auth EXCEPT ![i].pc = IF auth[i].token = "valid" THEN "find" ELSE "done"]
    /\ UNCHANGED <<coreVars, bridge, ledger, rb>>

\* await User.findById(_id): a missing user is answered 401, and then
\* req.user = user and next() run all the same
AuthFindUser(i) ==
    /\ auth[i].pc = "find"
    /\ auth' = [auth EXCEPT ![i] =
          [(IF auth[i].userExists THEN @ ELSE Respond(@)) EXCEPT
              !.reqUser = IF auth[i].userExists THEN "user" ELSE "null",
              !.pc = IF auth[i].adminRoute THEN "admin" ELSE "handler"]]
    /\ UNCHANGED <<coreVars, bridge, ledger, rb>>

\* adminAuth: req.user.role throws on a null req.user; a user without the
\* role is answered 400; otherwise next()
AdminAuth(i) ==
    /\ auth[i].pc = "admin"
    /\ auth' = [auth EXCEPT ![i] =
          IF auth[i].reqUser = "null" THEN [@ EXCEPT !.pc = "done"]
          ELSE IF ~auth[i].isAdmin THEN [Respond(@) EXCEPT !.pc = "done"]
          ELSE [@ EXCEPT !.pc = "handler"]]
    /\ UNCHANGED <<coreVars, bridge, ledger, rb>>

\* the route handler runs and answers
AuthHandler(i) ==
    /\ auth[i].pc = "handler"
    /\ auth' = [auth EXCEPT ![i] = [Respond(@) EXCEPT !.pc = "done", !.handlerRan = TRUE]]
    /\ UNCHANGED <<coreVars, bridge, ledger, rb>>

AuthStep(i) == AuthVerify(i) \/ AuthFindUser(i) \/ AdminAuth(i) \/ AuthHandler(i)

\* ------------------------------------------------------------------- cart
CartArrive(i) ==
    \/ \E p \in Products, c \in Carts, q \in Qtys : AddGetStock(i, p, c, q)
    \/ \E p \in Products, c \in Carts, q \in Qtys : RemoveHGet(i, p, c, Whole(q))
    \/ \E c \in Carts, n \in 0..MaxRestoreItems :
          \E items \in ItemsOfLen(n) : RestoreArrive(i, c, items)
    \/ ClearNoCartId(i)
    \/ \E c \in Carts \cup {WildcardCart} : ClearScan(i, c)

CartStep(i) ==
    \/ AddHGet(i) \/ AddDecrBy(i) \/ AddHSet(i)
    \/ RemoveIncrBy(i) \/ RemoveHIncrBy(i) \/ RemoveExists(i) \/ RemoveDel(i)
    \/ RestoreIncrBy(i) \/ RestoreDel(i)
    \/ ClearUnlink(i)

SweepStep == (\E key \in Products \X Carts : SweepHGetAll(key)) \/ SweepIncrBy \/ SweepDel

Init ==
    /\ productStock = [p \in Products |-> InitStock]
    /\ stockCounter = [p \in Products |-> InitStock]
    /\ holds = [k \in Products \X Carts |-> NoHold]
    /\ now = 1
    /\ creq = [i \in CartReqs |-> IdleReq]
    /\ sweep = IdleSweep
    /\ sweepsInRow = 0
    /\ sweepMetDeleted = FALSE
    /\ design \in {"direct", "broker"}
    /\ orders = [r \in Refs |-> NoOrder]
    /\ payments = [r \in Refs |-> "none"]
    /\ oreq = [i \in Refs |-> IdleOrd]
    /\ bridge = [b \in BridgeCalls |-> IdleBridge]
    /\ ledger = [totalAmount |-> 0, status |-> "none", payments |-> <<>>,
                 req |-> [i \in PayReqs |-> IdlePay]]
    /\ rb = IdleRollback
    /\ auth = [i \in AuthReqs |-> IdleAuth]

vars == <<cartVars, orderVars>>

\* cart requests, sweeps and the clock, freely interleaved
CartNext ==
    \/ \E i \in CartReqs : CartArrive(i)
    \/ \E i \in CartReqs : CartStep(i)
    \/ SweepKeys
    \/ SweepStep
    \/ Tick

CartSpec == Init /\ [][CartNext]_vars

\* the same handlers, one at a time: a request or a sweep starts only when no
\* other is in flight
SeqCartNext ==
    \/ Quiescent /\ \E i \in CartReqs : CartArrive(i)
    \/ \E i \in CartReqs : CartStep(i)
    \/ Quiescent /\ SweepKeys
    \/ SweepStep
    \/ Tick

SeqCartSpec == Init /\ [][SeqCartNext]_vars

\* the cart as the server runs it: app requires cron/stockScheduler, whose
\* cron.schedule call is commented out, so nothing starts a sweep
DeployedCartNext ==
    \/ \E i \in CartReqs : CartArrive(i)
    \/ \E i \in CartReqs : CartStep(i)
    \/ Tick

\* a handler that has started goes on, and time passes
DeployedCartLiveSpec ==
    /\ Init /\ [][DeployedCartNext]_vars
    /\ \A i \in CartReqs : WF_vars(CartStep(i))
    /\ WF_vars(Tick)

\* order creation and reconciliation, freely interleaved
OrderNext ==
    \/ \E i \in Refs, n \in 0..MaxItems, shippingAddress \in BOOLEAN :
          OrdArrive(i, n, shippingAddress)
    \/ \E i \in Refs : OrdStep(i)
    \/ \E r \in Refs, event \in Events, isWebhookValid \in BOOLEAN :
          WebhookDeliver(r, event, isWebhookValid)
    \/ \E r \in Refs, paymentStatus \in PaymentStatuses :
          ConsumerDeliver(r, paymentStatus)

OrderSpec == Init /\ [][OrderNext]_vars

\* a handler that has started goes on; no request or event has to arrive
OrderLiveSpec == OrderSpec /\ \A i \in Refs : WF_vars(OrdStep(i))

Next == CartNext \/ OrderNext

Spec == Init /\ [][Next]_vars

\* ------------------------------------------------------------ cart claims
RECURSIVE SumOver(_, _)
SumOver(f, S) == IF S = {} THEN 0
                 ELSE LET x == CHOOSE y \in S : TRUE
                      IN  f[x] + SumOver(f, S \ {x})

\* the sum of the quantities of all existing holds for p
HeldFor(p) == SumOver([c \in Carts |-> HGetQuantity(holds[<<p, c>>])], Carts)

\* no hold can have reached its expiry yet, so no sweep has given stock back
NoReclaimYet == now < 1 + HoldExpiryTicks

OkAdds(p) == {i \in CartReqs : /\ creq[i].op = "add" /\ creq[i].res = "ok"
                               /\ creq[i].items[1].productId = p}

AddedOk(p) == SumOver([i \in CartReqs |->
                         IF i \in OkAdds(p) THEN creq[i].items[1].quantity ELSE 0],
                      CartReqs)

\* C1: at quiescence, with no order created and no cart cleared,
\* StockCounter(p) plus the quantities of all holds for p equals the
\* authoritative Product.stock(p).
C1_LedgerInvariant ==
    (Quiescent /\ \A i \in CartReqs : creq[i].op # "clear")
        => \A p \in Products : stockCounter[p] + HeldFor(p) = productStock[p]

\* C2: addToCart calls alone, from a counter of InitStock: the total quantity
\* of the calls that reported success is at most InitStock.
C2_NoOversell ==
    (NoReclaimYet /\ \A i \in CartReqs : creq[i].op \in {"none", "add"})
        => \A p \in Products : AddedOk(p) <= InitStock

\* C9: after addToCart calls for one (productId, cartId) that all succeeded,
\* and nothing else on the pair, the pair has one hold whose quantity is the
\* sum of the calls' quantities.
C9_HoldMerge ==
    \A p \in Products, c \in Carts :
        ( /\ NoReclaimYet
          /\ creq[1].pc = "done"
          /\ \A i \in CartReqs :
                \/ creq[i].pc = "idle"
                \/ /\ creq[i].pc = "done" /\ creq[i].op = "add" /\ creq[i].res = "ok"
                   /\ creq[i].items[1].productId = p /\ creq[i].c = c )
        => /\ Exists(holds[<<p, c>>])
           /\ HGetQuantity(holds[<<p, c>>]) = AddedOk(p)

\* the state a call that ran alone leaves, against the state it found
AddRemoveEffect(i) ==
    LET r == creq[i]
        p == r.items[1].productId
        q == r.items[1].quantity
        h == holds[<<p, r.c>>]
    IN  /\ r.op = "add" =>
              /\ stockCounter[p] = r.stock0 - q
              /\ HGetQuantity(h) = r.currentHold + q
        /\ r.op = "remove" =>
              /\ stockCounter[p] = r.stock0 + q
              /\ HGetQuantity(h) = r.currentHold - q
              /\ Exists(h) <=> r.currentHold - q # 0

\* C10: run alone, a successful addToCart lowers StockCounter by q and raises
\* the hold by q; a successful removeFromCart raises StockCounter by r, lowers
\* the hold by r and deletes it exactly when the result is zero.
C10_AddThenRemove ==
    [][\A i \in CartReqs :
          (creq[i].pc # "done" /\ creq'[i].pc = "done" /\ creq'[i].res = "ok")
              => AddRemoveEffect(i)']_vars

Failed(i) == oreq[i].pc = "done" /\ oreq[i].res \notin {"none", "created"}

NothingTaken(i) == \A p \in Products : oreq[i].net[p] = 0

\* C3: direct variant: a createOrder that answers an error has given back
\* every decrement it made.
C3_CompensationCompleteness ==
    \A i \in Refs : (design = "direct" /\ Failed(i)) => NothingTaken(i)

\* C4: broker variant: when the payment reply times out, createOrder answers
\* the timeout error, no Order is persisted and every decrement was given back.
C4_TimeoutPath ==
    \A i \in Refs :
        (oreq[i].pc = "done" /\ oreq[i].pay = "timeout")
            => /\ oreq[i].res = "error_payment_response_timeout"
               /\ orders[i] = NoOrder
               /\ NothingTaken(i)

\* C5: once a reconciler has marked an order failed, the stock its lines took
\* is eventually given back.
C5_FailurePath ==
    \A r \in Refs : [](orders[r].status = "failed" => <>NothingTaken(r))

\* C6: in every reachable state, delivering a payment event for a reference
\* twice leaves orders, payments and stock as delivering it once does.
C6_ReconcilerIdempotence ==
    \A r \in Refs :
        /\ design = "direct" =>
              \A event \in {"payment.captured", "payment.failed"} :
                 Hook(Hook(DB, TRUE, r, event), TRUE, r, event) = Hook(DB, TRUE, r, event)
        /\ design = "broker" =>
              \A paymentStatus \in {"captured", "payment.failed"} :
                 Consume(Consume(DB, r, paymentStatus), r, paymentStatus)
                    = Consume(DB, r, paymentStatus)

\* a failed payment has been reconciled for an order that holds stock
C6_Witness ==
    \E r \in Refs : /\ orders[r].status = "failed"
                    /\ \E p \in Products : oreq[r].net[p] > 0

\* createOrder answered 201 for r and its order is still pending
CreatedPending(r) == oreq[r].res = "created" /\ orders[r].status = "pending"

\* what createOrder leaves when it answers 201
CreatedTookItsLines(r) ==
    oreq[r].res = "created" =>
        /\ orders[r].status # "none"
        /\ \A p \in Products : oreq[r].net[p] = QtyOf(orders[r].items, p)

\* the documents after the reconciler of the deployed variant has processed a
\* captured event for r
AfterCaptured(r) == IF design = "direct"
                    THEN Hook(DB, TRUE, r, "payment.captured")
                    ELSE Consume(DB, r, "captured")

Insufficient(i) == creq[i].currentStock < creq[i].currentHold + creq[i].items[1].quantity

\* C11: addToCart answers insufficient stock exactly when the counter it read
\* is below the hold it read plus qty; the step that rejects writes nothing,
\* and only a call whose check passed goes on to its writes.
C11_AddRejection ==
    [][\A i \in CartReqs :
          /\ (creq'[i].op = "add" /\ creq'[i].pc = "done") =>
                 (creq'[i].res = "not_enough_stock" <=> Insufficient(i)')
          /\ (creq[i].pc = "add_hget" /\ creq'[i].res = "not_enough_stock") =>
                 UNCHANGED <<stockCounter, holds>>
          /\ creq'[i].pc \in {"add_decrby", "add_hset"} => ~Insufficient(i)']_vars

\* an addToCart was rejected for a cart that already holds the product
C11_Witness ==
    \E i \in CartReqs : /\ creq[i].op = "add" /\ creq[i].res = "not_enough_stock"
                         /\ creq[i].currentHold > 0

\* ----------------------------------------------- order claims, second part
\* C12: under any interleaving of createOrder calls and their rollbacks no
\* Product.stock is negative, and a guarded decrement that finds stock < qty
\* answers the stock-update error and leaves the stock as it was.
C12_GuardedDecrement ==
    [][/\ \A p \in Products : productStock'[p] >= 0
       /\ \A i \in Refs :
             (oreq[i].pc = "ord_update"
                 /\ productStock[oreq[i].item.sku] < oreq[i].item.qty)
                => /\ oreq'[i].pc = "ord_update"
                      \/ /\ oreq'[i].res = "stock_update_failed"
                         /\ oreq'[i].net = oreq[i].net
                   /\ (oreq'[i].pc # "ord_update" => productStock' = productStock)]_vars

\* a createOrder passed its stock check and then lost the guarded decrement
C12_Witness ==
    \E i \in Refs : oreq[i].res = "stock_update_failed"

\* C13: a webhook call whose signature does not validate is answered with a
\* status outside 2xx and changes no Payment, no Order and no stock.
C13_InvalidSignature ==
    \A r \in Refs, event \in Events :
        /\ Hook(DB, FALSE, r, event) = DB
        /\ HookResponse(DB, FALSE, r, event) \notin 200..299

\* a Payment and a pending Order exist that a validated call would change
C13_Witness ==
    \E r \in Refs : /\ design = "direct"
                    /\ payments[r] = "created" /\ orders[r].status = "pending"
                    /\ Hook(DB, TRUE, r, "payment.failed") # DB
                    /\ Hook(DB, FALSE, r, "payment.failed") = DB

\* C14: a payment event whose reference matches no Payment and no Order
\* changes nothing; the webhook answers 200 and the broker message is
\* acknowledged.
C14_UnknownReferenceNoOp ==
    \A r \in Refs :
        (payments[r] = "none" /\ orders[r].status = "none") =>
            /\ design = "direct" =>
                  \A event \in {"payment.captured", "payment.failed"} :
                     /\ Hook(DB, TRUE, r, event) = DB
                     /\ HookResponse(DB, TRUE, r, event) = 200
            /\ design = "broker" =>
                  \A paymentStatus \in {"captured", "payment.failed"} :
                     /\ Consume(DB, r, paymentStatus) = DB
                     /\ ConsumerAcks(DB, r, paymentStatus)

\* C15: a broker message is acknowledged only when the order was loaded and
\* its status saved.
C15_AckAfterPersist ==
    \A r \in Refs, paymentStatus \in {"captured", "payment.failed"} :
        (design = "broker" /\ ConsumerAcks(DB, r, paymentStatus))
            => ConsumePersisted(DB, r, paymentStatus)

\* ------------------------------------------------ cart claims, third part
\* request i answers success in this step
Completes(i, op) ==
    creq[i].pc # "done" /\ creq'[i].pc = "done" /\ creq'[i].op = op /\ creq'[i].res = "ok"

\* C16: run alone, clearCart(cartId) leaves no hold of cartId, changes no
\* StockCounter and leaves the holds of every other cart as they were.
C16_ClearCart ==
    [][\A i \in CartReqs :
          Completes(i, "clear") =>
              /\ stockCounter' = stockCounter
              /\ \A p \in Products, c \in Carts :
                     IF c = creq'[i].c
                     THEN ~Exists(holds'[<<p, c>>])
                     ELSE holds'[<<p, c>>] = holds[<<p, c>>]]_vars

\* the holds of the listed pairs are gone when restoreCart answers
ListedHoldsGone(i, items) ==
    \A k \in 1..Len(items) : ~Exists(holds'[<<items[k].productId, creq'[i].c>>])

PositiveItems(items) == SelectSeq(items, LAMBDA it : it.quantity > 0)

WellFormed(h) ==
    /\ HasField(h, "quantity") /\ HasField(h, "createdAt")
    /\ h.quantity # 0 /\ h.createdAt # 0

\* a well-formed hold with t - createdAt >= TTL
Expired(h, t) == WellFormed(h) /\ t - h.createdAt >= HoldExpiryTicks

\* C18: a sweep taken at time t that ran alone has deleted exactly the holds
\* that were well-formed with t - createdAt >= TTL and has raised each
\* StockCounter by their quantities; every other hold is as it was.
C18_SweepReclaims ==
    [][(sweep.pc # "idle" /\ sweep'.pc = "idle" /\ sweep.alone) =>
          LET h0 == sweep.atStart.holds
              s0 == sweep.atStart.stockCounter
              t == sweep.now
          IN  /\ \A key \in Products \X Carts :
                    IF Expired(h0[key], t)
                    THEN ~Exists(holds'[key])
                    ELSE holds'[key] = h0[key]
              /\ \A p \in Products :
                    stockCounter'[p] = s0[p] +
                        SumOver([c \in Carts |->
                                   IF Expired(h0[<<p, c>>], t)
                                   THEN h0[<<p, c>>].quantity ELSE 0], Carts)]_vars

\* a sweep running alone has given back an expired hold while a hold younger
\* than the TTL is on its list
C18_Witness ==
    /\ sweep.pc = "sw_del" /\ sweep.alone
    /\ \E key \in sweep.keys \ {sweep.key} :
          WellFormed(holds[key]) /\ sweep.now - holds[key].createdAt < HoldExpiryTicks

\* C19: every hold is eventually deleted, whatever the requests do.
C19_BoundedHoldLifetime ==
    \A key \in Products \X Carts : [](Exists(holds[key]) => <>(~Exists(holds[key])))

\* C20: no step changes the createdAt of a hold that exists before and after it.
C20_CreatedAtKept ==
    [][\A key \in Products \X Carts :
          (HasField(holds[key], "createdAt") /\ HasField(holds'[key], "createdAt"))
              => holds'[key].createdAt = holds[key].createdAt]_vars

\* ------------------------------------------------ order claims, third part
\* C21: a payment event moves an Order to processing only from pending, and
\* moves no Order out of failed.
C21_OneDirectionalStatus ==
    [][\A r \in Refs :
          /\ (orders'[r].status = "processing" /\ orders[r].status # "processing")
                => orders[r].status = "pending"
          /\ orders[r].status = "failed" => orders'[r].status = "failed"]_vars

C24_ValidateBeforeDecrement ==
    \A i \in Refs :
        (oreq[i].pc = "done" /\ oreq[i].res \in {"invalid_request", "invalid_item"})
            => NothingTaken(i)

\* the sum over the lines of priceAtOrder * qty
RECURSIVE LinesTotal(_)
LinesTotal(items) ==
    IF items = <<>> THEN 0
    ELSE Head(items).priceAtOrder * Head(items).qty + LinesTotal(Tail(items))

\* every line carries the product's own price
PricedFromProduct(items) ==
    \A k \in 1..Len(items) : items[k].priceAtOrder = ProductPrice[items[k].sku]

\* C23: a persisted Order's totalAmount is the sum of priceAtOrder * qty over
\* its lines, each priceAtOrder being the Product's price, and the amount sent
\* to the payment call is that sum; the prices of the request play no part.
C23_TotalFromProductPrices ==
    /\ \A r \in Refs :
          orders[r].status # "none" =>
              /\ PricedFromProduct(orders[r].items)
              /\ orders[r].totalAmount = LinesTotal(orders[r].items)
    /\ \A i \in Refs :
          oreq[i].pay # "none" =>
              /\ PricedFromProduct(oreq[i].orderItemsForDb)
              /\ oreq[i].amount = LinesTotal(oreq[i].orderItemsForDb)

\* an Order of two lines is persisted whose request carried a price of its own
C23_Witness ==
    \E r \in Refs : /\ orders[r].status # "none" /\ Len(orders[r].items) = 2
                    /\ oreq[r].item.price # ProductPrice[oreq[r].item.sku]

\* sendPaymentRequest calls and the replies handed to them
BridgeNext ==
    \/ \E b \in BridgeCalls : BridgeCall(b)
    \/ \E b \in BridgeCalls : BridgeStep(b)
    \/ \E b \in BridgeCalls, matches \in BOOLEAN, parses \in BOOLEAN :
          BridgeReply(b, matches, parses)

BridgeSpec == Init /\ [][BridgeNext]_vars

\* the runtime runs every pending continuation and timer; no reply is owed
BridgeLiveSpec == BridgeSpec /\ \A b \in BridgeCalls : WF_vars(BridgeStep(b))

\* C25: a sendPaymentRequest call that opened a connection and a channel
\* eventually has both closed.
C25_ResourcesClosed ==
    \A b \in BridgeCalls :
        [](bridge[b].opened => <>(~bridge[b].connection /\ ~bridge[b].channel))

\* C26: a call whose amqp.connect failed ends as a failure for the caller,
\* a call resolves only by a reply carrying its own correlationId, and a
\* call that ends otherwise ends by the timeout error.
C26_OneOutcome ==
    \A b \in BridgeCalls :
        /\ bridge[b].connectFailed /\ bridge[b].outcome # "none"
              => bridge[b].outcome \in {"rejected_timeout", "rejected_parse", "rejected_consume"}
        /\ bridge[b].outcome = "resolved" => bridge[b].resolvedBy = "own"

\* payments recorded against one order
PaymentNext ==
    \/ \E totalAmount \in 1..MaxTotalAmount : PayOrderSaved(totalAmount)
    \/ \E i \in PayReqs, amountPaid \in Amounts : PayFindOrder(i, amountPaid)
    \/ \E i \in PayReqs : PayStep(i)

PaymentSpec == Init /\ [][PaymentNext]_vars

\* C27: a recorded payment is completed exactly when the amounts of the
\* order's payments up to and including it reach Order.totalAmount, and
\* partially paid exactly when they stay below it.
C27_DynamicStatus ==
    \A k \in 1..Len(ledger.payments) :
        LET totalPaid == SumAmountPaid(SubSeq(ledger.payments, 1, k))
        IN  /\ ledger.payments[k].status = "completed" <=> totalPaid >= ledger.totalAmount
            /\ ledger.payments[k].status = "partially paid" <=> totalPaid < ledger.totalAmount

\* rollbackStock called again and again for one order
RollbackNext ==
    \/ \E status \in {"pending", "failed"}, n \in 0..MaxItems :
          \E qtys \in QtysOfLen(n) : RollbackOrder(status, qtys)
    \/ RollbackCall
    \/ \E ok \in BOOLEAN : RollbackUpdateOne(ok)
    \/ \E ok \in BOOLEAN : RollbackStatus(ok)

RollbackSpec == Init /\ [][RollbackNext]_vars

\* C28: an order is in a ..._stock_rolledback status only when every line's
\* quantity has been added back, and no line's quantity is added back more
\* than once however often rollbackStock runs.
C28_RollbackExactlyOnce ==
    /\ rb.status \in {"pending_stock_rolledback", "failed_stock_rolledback"}
          => \A k \in 1..Len(rb.qtys) : rb.restored[k] = rb.qtys[k]
    /\ \A k \in 1..Len(rb.qtys) : rb.restored[k] <= rb.qtys[k]

\* requests through the authentication middleware
AuthNext ==
    \/ \E i \in AuthReqs, token \in Tokens, userExists \in BOOLEAN,
          isAdmin \in BOOLEAN, adminRoute \in BOOLEAN :
          AuthArrive(i, token, userExists, isAdmin, adminRoute)
    \/ \E i \in AuthReqs : AuthStep(i)

AuthSpec == Init /\ [][AuthNext]_vars

\* C29: the handler of a guarded route runs only for a token that verifies
\* and names an existing user, never with an empty req.user, and a request
\* whose token is missing or invalid or whose user is not found has exactly
\* one response once the middleware is through.
C29_UserAuthGuards ==
    \A i \in AuthReqs :
        /\ auth[i].handlerRan
              => auth[i].token = "valid" /\ auth[i].userExists /\ auth[i].reqUser = "user"
        /\ auth[i].pc = "done" /\ ~(auth[i].token = "valid" /\ auth[i].userExists)
              => auth[i].responses = 1

\* ------------------------------------------------- cart claims, third part
\* C30: when the hold the sweep read as expired has been deleted before the
\* sweep's increment, the increment adds nothing to StockCounter.
C30_ReclaimAfterDeletion ==
    [][(sweep.pc = "sw_incrby" /\ sweep'.pc = "sw_del" /\ ~Exists(holds[sweep.key]))
          => stockCounter' = stockCounter]_vars

\* ------------------------------------------------ cart claims, fourth part
\* the handlers one at a time, with a store that may reject a call made
\* after the StockCounter update
FaultyCartNext ==
    \/ Quiescent /\ \E i \in CartReqs : CartArrive(i)
    \/ \E i \in CartReqs : CartStep(i)
    \/ \E i \in CartReqs : StoreFails(i)
    \/ Quiescent /\ SweepKeys
    \/ SweepStep
    \/ Tick

FaultyCartSpec == Init /\ [][FaultyCartNext]_vars

\* C31: when addToCart or removeFromCart, run alone, answers a store error,
\* StockCounter plus the pair's hold is what it was before the call, or what
\* the completed call leaves.
C31_StoreErrorLedger ==
    [][\A i \in CartReqs :
          (creq[i].pc # "done" /\ creq'[i].pc = "done" /\ creq'[i].res = "store_error")
              => LET r == creq'[i]
                     p == r.items[1].productId
                     sum == stockCounter'[p] + HGetQuantity(holds'[<<p, r.c>>])
                 IN  \/ sum = r.stock0 + r.currentHold
                     \/ r.op = "add" /\ sum = r.stock0]_vars

\* the state after one addToCart(1, 1, MaxQty) on the initial state
HeldInit ==
    /\ productStock = [p \in Products |-> InitStock]
    /\ stockCounter = [p \in Products |-> IF p = 1 THEN InitStock - MaxQty ELSE InitStock]
    /\ holds = [k \in Products \X Carts |->
                  IF k = <<1, 1>> THEN HSet(NoHold, MaxQty, 1) ELSE NoHold]
    /\ now = 1
    /\ creq = [i \in CartReqs |-> IdleReq]
    /\ sweep = IdleSweep
    /\ sweepsInRow = 0
    /\ sweepMetDeleted = FALSE
    /\ design \in {"direct", "broker"}
    /\ orders = [r \in Refs |-> NoOrder]
    /\ payments = [r \in Refs |-> "none"]
    /\ oreq = [i \in Refs |-> IdleOrd]
    /\ bridge = [b \in BridgeCalls |-> IdleBridge]
    /\ ledger = [totalAmount |-> 0, status |-> "none", payments |-> <<>>,
                 req |-> [i \in PayReqs |-> IdlePay]]
    /\ rb = IdleRollback
    /\ auth = [i \in AuthReqs |-> IdleAuth]

\* removeFromCart calls alone, freely interleaved
RemoveNext ==
    \/ \E i \in CartReqs, p \in Products, c \in Carts, quantity \in RawQtys :
          RemoveHGet(i, p, c, quantity)
    \/ \E i \in CartReqs : RemoveIncrBy(i)
    \/ \E i \in CartReqs : RemoveHIncrBy(i)
    \/ \E i \in CartReqs : RemoveExists(i)
    \/ \E i \in CartReqs : RemoveDel(i)

RemoveSpec == HeldInit /\ [][RemoveNext]_vars

\* C32: removeFromCart calls on a hold of MaxQty units return at most MaxQty
\* units to the StockCounter, however they interleave.
C32_RemovesReturnAtMostHold ==
    stockCounter[1] - (InitStock - MaxQty) <= MaxQty

\* rollbackStock and the captured event of the same order, freely interleaved
RollbackRaceNext ==
    \/ \E qtys \in QtysOfLen(MaxItems) : RollbackOrder("pending", qtys)
    \/ RollbackCall
    \/ \E ok \in BOOLEAN : RollbackUpdateOne(ok)
    \/ \E ok \in BOOLEAN : RollbackStatus(ok)
    \/ RollbackCaptured

RollbackRaceSpec == Init /\ [][RollbackRaceNext]_vars

\* C33: an order is never processing with a line added back to stock, and
\* an order whose captured event was delivered is never
\* pending_stock_rolledback.
C33_CapturedNeverRolledBack ==
    /\ rb.status = "processing" => \A k \in 1..Len(rb.qtys) : rb.restored[k] = 0
    /\ rb.captured => rb.status # "pending_stock_rolledback"

\* C34: each increment of restoreCart equals the quantity of the hold
\* (productId, cartId) existing at that time: nothing is added for a pair
\* without a hold or for a request quantity other than the held one.
C34_RestoreReturnsHeld ==
    [][\A i \in CartReqs :
          (creq'[i].op = "restore" /\ creq'[i].pc = "rs_del" /\ creq[i].pc # "rs_del") =>
              LET it == creq'[i].items[creq'[i].idx]
              IN  stockCounter'[it.productId] - stockCounter[it.productId]
                      = HGetQuantity(holds[<<it.productId, creq'[i].c>>])]_vars

\* orders created while cart 1 holds MaxQty units of product 1
HeldOrderSpec == HeldInit /\ [][OrderNext]_vars

\* C36: after creation every change of StockCounter(p) is relative: while a
\* hold on p exists the counter moves by what Product.stock(p) moves by, and
\* is never replaced by Product.stock(p) itself.
C36_CounterChangesRelative ==
    [][\A p \in Products :
          (stockCounter'[p] # stockCounter[p] /\ HeldFor(p) > 0)
              => stockCounter'[p] - stockCounter[p] = productStock'[p] - productStock[p]]_vars

\* every cart operation, the stock read included, and the sweep
CartFrameNext ==
    \/ \E i \in CartReqs : CartArrive(i)
    \/ \E i \in CartReqs, p \in Products : GetStock(i, p)
    \/ \E i \in CartReqs : CartStep(i)
    \/ SweepKeys
    \/ SweepStep
    \/ Tick

CartFrameSpec == Init /\ [][CartFrameNext]_vars

\* C35: no step of addToCart, removeFromCart, clearCart, restoreCart,
\* getStock or the sweep changes Product.stock of any product.
C35_CartLeavesProductStock == [][productStock' = productStock]_vars

\* a sweep has given an expired hold's quantity back after a stock read
C35_Witness ==
    /\ sweep.pc = "sw_del"
    /\ \E i \in CartReqs : creq[i].op = "getstock" /\ creq[i].pc = "done"

\* the quantity sent is a whole number above zero
IsPositiveInteger(halves) == halves > 0 /\ halves % 2 = 0

\* C37: a removeFromCart whose quantity is not a positive integer, or
\* exceeds the quantity of the hold (none counting as 0), answers an
\* invalid-quantity error at once and changes no StockCounter and no hold.
C37_RemoveRejectsInvalid ==
    [][\A i \in CartReqs :
          (creq[i].pc = "idle" /\ creq'[i].op = "remove") =>
              LET r == creq'[i]
                  held == HGetQuantity(holds[<<r.items[1].productId, r.c>>])
              IN  (~IsPositiveInteger(r.raw) \/ r.raw > Whole(held))
                      => /\ r.pc = "done"
                         /\ r.res \in {"invalid_quantity", "more_than_held"}
                         /\ UNCHANGED <<stockCounter, holds>>]_vars

\* a hash left with the quantity field alone: hincrby of a remove that lost
\* its key to a delete writes one
QuantityOnly == [f \in {"quantity"} |-> 0 - 1]

\* the hashes a hold key may be found with when a sweep starts
HoldShapes == {NoHold, QuantityOnly, HSet(NoHold, 1, 1)}

\* the well-formed holds of product p in hs
WellFormedCount(hs, p) ==
    Cardinality({c \in Carts : HasField(hs[<<p, c>>], "createdAt")})

\* any mix of well-formed holds and hashes with a field missing
MalformedInit ==
    /\ productStock = [p \in Products |-> InitStock]
    /\ holds \in [Products \X Carts -> HoldShapes]
    /\ stockCounter = [p \in Products |-> InitStock - WellFormedCount(holds, p)]
    /\ now = 1
    /\ creq = [i \in CartReqs |-> IdleReq]
    /\ sweep = IdleSweep
    /\ sweepsInRow = 0
    /\ sweepMetDeleted = FALSE
    /\ design = "direct"
    /\ orders = [r \in Refs |-> NoOrder]
    /\ payments = [r \in Refs |-> "none"]
    /\ oreq = [i \in Refs |-> IdleOrd]
    /\ bridge = [b \in BridgeCalls |-> IdleBridge]
    /\ ledger = [totalAmount |-> 0, status |-> "none", payments |-> <<>>,
                 req |-> [i \in PayReqs |-> IdlePay]]
    /\ rb = IdleRollback
    /\ auth = [i \in AuthReqs |-> IdleAuth]

\* sweeps alone, time passing between them
SweepOnlyNext ==
    \/ SweepKeys
    \/ SweepStep
    \/ sweep.pc = "idle" /\ Tick

SweepOnlySpec == MalformedInit /\ [][SweepOnlyNext]_vars

\* a hash that exists with quantity or createdAt missing
Malformed(h) == Exists(h) /\ (~HasField(h, "quantity") \/ ~HasField(h, "createdAt"))

\* C38: a sweep that started with a malformed hold on its list ends with
\* every malformed hold as it was, every StockCounter raised by the expired
\* well-formed holds alone, and every expired well-formed hold deleted.
C38_MalformedSkipped ==
    [][(sweep.pc # "idle" /\ sweep'.pc = "idle" /\ sweep.alone) =>
          LET h0 == sweep.atStart.holds
              s0 == sweep.atStart.stockCounter
              t == sweep.now
          IN  (\E key \in Products \X Carts : Malformed(h0[key])) =>
                /\ \A key \in Products \X Carts :
                      /\ Malformed(h0[key]) => holds'[key] = h0[key]
                      /\ Expired(h0[key], t) => ~Exists(holds'[key])
                /\ \A p \in Products :
                      stockCounter'[p] = s0[p] +
                          SumOver([c \in Carts |->
                                     IF Expired(h0[<<p, c>>], t)
                                     THEN h0[<<p, c>>].quantity ELSE 0], Carts)]_vars

\* the sweep is giving back an expired hold after it passed a malformed one
C38_Witness ==
    /\ sweep.pc = "sw_del" /\ sweep.alone
    /\ \E key \in Products \X Carts :
          Malformed(sweep.atStart.holds[key]) /\ key \notin sweep.keys

====
